---------------------------- MODULE Spec2Model ----------------------------
(***************************************************************************)
(* QuickSurf: wallet ledger, airtime/data purchase orchestration, provider *)
(* outcome mapping, manual requery, reconciliation sweeper and Paystack    *)
(* payment crediting, modelled from the Django sources.                    *)
(*                                                                         *)
(* Money is counted in whole units of the smallest amount the model uses   *)
(* (every amount in the purchase and payment flows is a 2dp Decimal, so an *)
(* integer number of kobo).                                                *)
(***************************************************************************)
EXTENDS Integers, Sequences, FiniteSets, TLC

VARIABLES
    balance,      \* Wallet.balance of the user
    locked,       \* Wallet.locked of the user
    txns,         \* AirtimeTransaction and DataTransaction rows, in creation order
    cache,        \* keys set in the Django cache (single-flight and cooldown locks)
    req,          \* purchase POST requests: position and locals of each
    qry,          \* PurchaseStatusView GET requests: position and locals of each
    swp,          \* the requery_pending command: position, batch and locals
    ledgerOps,    \* how many Wallet ledger methods have been called
    vtpass,       \* the provider's side: what it holds for each request_id
    intent,       \* the PaymentIntent row of one reference
    paystack,     \* the gateway's side: what it holds for that reference
    vfy,          \* PaymentVerifyView.get in flight: position and locals
    whk,          \* PaystackWebhookView.post in flight: position and locals
    mapBody,      \* the provider response body handed to the outcome mapping
    mapOut,       \* the outcomes computed for it (strict_map_outcome, _map_vtpass_outcome)
    idem,         \* the IdempotencyKey rows of one user, by key
    ens,          \* callers of core.idempotency.ensure: position and locals
    wapi,         \* wallet endpoint requests in flight: position and locals
    ledger,       \* the wallet's ledger: its Transaction rows, oldest first
    lcall,        \* the last call of a Wallet ledger method: arguments, wallet read, error
    rowlock,      \* who holds the wallet row lock (select_for_update), if anyone
    sale          \* one airtime amount on its way from the request to the provider

vars ==
    <<balance, locked, txns, cache, req, qry, swp, ledgerOps, vtpass,
      intent, paystack, vfy, whk, mapBody, mapOut, idem, ens, wapi,
      ledger, lcall, rowlock, sale>>

mapVars == <<mapBody, mapOut>>
bookVars == <<ledger, lcall>>
shopVars == <<locked, txns, cache, req, qry, swp, ledgerOps, vtpass, bookVars>>
purchaseVars == <<balance, shopVars>>
payVars == <<intent, paystack, vfy, whk>>
guardVars == <<idem, ens>>
apiVars == <<wapi>>
\* what the purchase flow never touches
otherVars == <<payVars, guardVars, apiVars, bookVars>>

(***************************************************************************)
(* Strings are sequences of one-character strings, so that str.strip() and *)
(* str.lower() are computed, not assumed.                                  *)
(***************************************************************************)
UpperChars == <<"D", "E", "L", "I", "V", "R", "P", "N", "G", "F", "A", "O">>
LowerChars == <<"d", "e", "l", "i", "v", "r", "p", "n", "g", "f", "a", "o">>

\* str.lower() on one character
LowerChar(c) ==
    IF \E i \in 1..Len(UpperChars) : UpperChars[i] = c
    THEN LowerChars[CHOOSE i \in 1..Len(UpperChars) : UpperChars[i] = c]
    ELSE c

\* str.lower()
Lower(s) == [i \in 1..Len(s) |-> LowerChar(s[i])]

RECURSIVE LStrip(_)
LStrip(s) == IF s # <<>> /\ Head(s) = " " THEN LStrip(Tail(s)) ELSE s

RECURSIVE RStrip(_)
RStrip(s) ==
    IF s # <<>> /\ s[Len(s)] = " " THEN RStrip(SubSeq(s, 1, Len(s) - 1)) ELSE s

\* str.strip()
Strip(s) == RStrip(LStrip(s))

DigitChars == <<"0", "1", "2", "3", "4", "5", "6", "7", "8", "9">>

\* str(n) of a non-negative int
RECURSIVE IntStr(_)
IntStr(n) ==
    IF n < 10 THEN <<DigitChars[n + 1]>>
    ELSE IntStr(n \div 10) \o <<DigitChars[(n % 10) + 1]>>

(***************************************************************************)
(* JSON values as the mapping sees them.  A value is a record with a kind: *)
(*   "str" (a string s), "int" (a number n), "null", "dict" (fields f),    *)
(*   "list" (any non-dict container).  A missing key is Missing.           *)
(***************************************************************************)
Missing == [kind |-> "missing"]
JNull == [kind |-> "null"]
JList == [kind |-> "list"]
JStr(s) == [kind |-> "str", s |-> s]
JInt(n) == [kind |-> "int", n |-> n]

\* str(v) of a scalar JSON value, as Python prints it
PyStr(v) ==
    CASE v.kind = "str" -> v.s
      [] v.kind = "int" -> IntStr(v.n)
      [] v.kind = "null" -> <<"N", "o", "n", "e">>
      [] OTHER -> <<"[", "]">>

S000 == <<"0", "0", "0">>
S099 == <<"0", "9", "9">>
S016 == <<"0", "1", "6">>
S999 == <<"9", "9", "9">>
S015 == <<"0", "1", "5">>
SPadded000 == <<" ", "0", "0", "0", " ">>
SDelivered == <<"d", "e", "l", "i", "v", "e", "r", "e", "d">>
SDeliveredCap == <<"D", "e", "l", "i", "v", "e", "r", "e", "d">>
SDeliveredSp == <<"d", "e", "l", "i", "v", "e", "r", "e", "d", " ">>
SPending == <<"p", "e", "n", "d", "i", "n", "g">>
SPendingUp == <<"P", "E", "N", "D", "I", "N", "G">>
SFailed == <<"f", "a", "i", "l", "e", "d">>
SEmpty == <<>>

\* values of body["code"] the model draws from
CodeValues ==
    {Missing, JNull, JInt(0), JInt(16), JInt(99),
     JStr(S000), JStr(SPadded000), JStr(S099), JStr(S016), JStr(S999), JStr(S015)}

\* values of body["content"]["transactions"]["status"]
StatusValues ==
    {Missing, JNull, JStr(SDelivered), JStr(SDeliveredCap), JStr(SDeliveredSp),
     JStr(SPending), JStr(SPendingUp), JStr(SFailed), JStr(SEmpty)}

\* values of body["content"]["transactions"]
TransactionsValues ==
    {Missing, JNull, JList} \cup {[kind |-> "dict", status |-> st] : st \in StatusValues}

\* values of body["content"]
ContentValues ==
    {Missing, JNull, JList}
        \cup {[kind |-> "dict", transactions |-> tx] : tx \in TransactionsValues}

\* provider response bodies: a JSON object with code and content, or not an object
Bodies ==
    {JNull, JList}
        \cup {[kind |-> "dict", code |-> c, content |-> ct] :
                c \in CodeValues, ct \in ContentValues}

(***************************************************************************)
(* services/vtpass.py strict_map_outcome and services/views.py             *)
(* _map_vtpass_outcome.  Raises(body) is the condition under which the     *)
(* try block raises (AttributeError on .get of a non-dict) and the         *)
(* function falls through to "failed".                                     *)
(***************************************************************************)
\* dict.get(key, {}) then .get(...) on the result: usable only if absent or a dict
GetOrEmptyRaises(v) == v.kind \notin {"missing", "dict"}

MapRaises(body) ==
    \/ body.kind # "dict"
    \/ GetOrEmptyRaises(body.content)
    \/ /\ body.content.kind = "dict"
       /\ GetOrEmptyRaises(body.content.transactions)

\* code = str(body.get("code", "")).strip()
MapCode(body) ==
    IF body.code.kind = "missing" THEN SEmpty ELSE Strip(PyStr(body.code))

\* tx = body.get("content", {}).get("transactions", {})
_tx_dict(body) ==
    IF body.kind # "dict" \/ body.content.kind = "missing" THEN Missing
    ELSE body.content.transactions

\* tx_status = str(tx.get("status", "")).lower()
MapTxStatus(body) ==
    LET tx == _tx_dict(body)
    IN  IF tx.kind = "missing" \/ tx.status.kind = "missing" THEN SEmpty
        ELSE Lower(PyStr(tx.status))

\* a mapping that trusts the success code alone
MapOutcomeCodeOnly(code, tx_status) ==
    IF code = S000 THEN "successful"
    ELSE IF tx_status = SPending \/ code \in {S099, S016} THEN "pending"
    ELSE "failed"

\* the two if statements, on the normalised code and status
MapOutcomeOf(code, tx_status) ==
    IF code = S000 /\ tx_status = SDelivered THEN "successful"
    ELSE IF tx_status = SPending \/ code \in {S099, S016} THEN "pending"
    ELSE "failed"

strict_map_outcome(body) ==
    IF MapRaises(body) THEN "failed"
    ELSE MapOutcomeOf(MapCode(body), MapTxStatus(body))

_map_vtpass_outcome(body) ==
    IF MapRaises(body) THEN "failed"
    ELSE MapOutcomeOf(MapCode(body), MapTxStatus(body))

(***************************************************************************)
(* Provider responses of the purchase and requery calls.  The provider is  *)
(* outside the program: each call returns one of these, or raises.         *)
(***************************************************************************)
DictOf(code, content) == [kind |-> "dict", code |-> code, content |-> content]
TxContent(status) ==
    [kind |-> "dict", transactions |-> [kind |-> "dict", status |-> JStr(status)]]

\* vtpass_mock.mock_purchase_response(success=True)
DeliveredBody == DictOf(JStr(S000), TxContent(SDelivered))
\* vtpass_mock.mock_purchase_response(success=False)
DeclinedBody == DictOf(JStr(S999), TxContent(SFailed))
\* an in-progress answer: code 099
ProcessingBody == DictOf(JStr(S099), TxContent(SPending))
\* _request's sentinel after a connect/read timeout or connection error
NetworkErrorBody == DictOf(JStr(S999), Missing)

\* the answer to a requery of a request_id the provider has never received
UnknownIdBody == DictOf(JStr(S015), Missing)

\* what a purchase call can come back with, and what a requery can
ResponseKinds == {"delivered", "processing", "declined", "neterr"}
RequeryKinds == ResponseKinds \cup {"unknown_id"}

ProviderBody(kind) ==
    CASE kind = "delivered" -> DeliveredBody
      [] kind = "processing" -> ProcessingBody
      [] kind = "declined" -> DeclinedBody
      [] kind = "unknown_id" -> UnknownIdBody
      [] OTHER -> NetworkErrorBody

(***************************************************************************)
(* The provider.  For each request_id it has received it holds one order,  *)
(* which it delivers or declines, at once or after a while; it answers a   *)
(* requery with what it holds.  Any call can fail in transport, and a      *)
(* purchase call that fails in transport may or may not have arrived.      *)
(***************************************************************************)
ProviderStates == {"unknown", "processing", "delivered", "declined"}

MAX_RETRIES == 1          \* _request: re-sends after a transport error

\* what generate_request_id() returns: an id no purchase row carries
GeneratedId == "generated"
\* a new id for every call
NewRequestId(request_id) == GeneratedId
\* rid = request_id or generate_request_id()
RequestIdOf(request_id) == IF request_id = "" THEN GeneratedId ELSE request_id

\* a purchase call for request_id answered with kind leaves the provider holding lands
PurchaseArrives(request_id, kind, lands) ==
    IF vtpass[request_id] = "unknown"
    THEN IF kind = "neterr" THEN lands \in ProviderStates ELSE lands = kind
    ELSE \* a request_id the provider already holds is refused
         kind \in {"declined", "neterr"} /\ lands = vtpass[request_id]

\* the answers a requery of request_id can get
RequeryAnswers(request_id) ==
    {IF vtpass[request_id] = "unknown" THEN "unknown_id" ELSE vtpass[request_id], "neterr"}

\* the provider finishes an order it was processing
ProviderSettles(request_id, outcome) ==
    /\ vtpass[request_id] = "processing"
    /\ vtpass' = [vtpass EXCEPT ![request_id] = outcome]
    /\ UNCHANGED <<balance, locked, txns, cache, req, qry, swp, ledgerOps, rowlock, mapVars, sale, otherVars>>

(***************************************************************************)
(* Bounds and input sets of the purchase flows.                            *)
(***************************************************************************)
NumRequests == 2          \* purchase POSTs in a run
NumRequeries == 1         \* manual requery GETs in a run
MinAmount == 1            \* the smallest amount a purchase row accepts
MaxAmount == 2            \* purchase amounts are MinAmount..MaxAmount
InitBalance == 3          \* wallet balance at the start (credited earlier)

ReqIds == 1..NumRequests
QryIds == 1..NumRequeries
Amounts == MinAmount..MaxAmount
Refs == {"R1", "R2"}
Lines == {"L1", "L2"}     \* a line is a (network, phone) pair
Services == {"airtime", "data"}

(***************************************************************************)
(* Rows of AirtimeTransaction / DataTransaction (svc tells the table).     *)
(* refunds, releases, calls and rids are history: how many times the       *)
(* amount was added back to balance, and taken off locked, on behalf of    *)
(* the row, how many times a view called the adapter's purchase function   *)
(* for it, and the request_ids its purchase and requery calls carried.     *)
(* logs is the number of ProviderLog rows written for the row's calls.     *)
(***************************************************************************)
NewTxn(svc, ref, line, amount) ==
    [svc |-> svc, ref |-> ref, line |-> line, amount |-> amount,
     status |-> "pending", refunds |-> 0, releases |-> 0, calls |-> 0, rids |-> {},
     logs |-> 0]

\* the rows of one table that carry a client_reference
RowsOf(svc, ref) == {i \in 1..Len(txns) : txns[i].svc = svc /\ txns[i].ref = ref}

\* a lookup that never finds the row
FindNoTxn(svc, ref) == 0

\* Model.objects.filter(user=user, client_reference=ref).first(): the row's pk, 0 if none
FindTxn(svc, ref) ==
    IF \E i \in 1..Len(txns) : txns[i].svc = svc /\ txns[i].ref = ref
    THEN CHOOSE i \in 1..Len(txns) : txns[i].svc = svc /\ txns[i].ref = ref
    ELSE 0

\* pending rows of the same table on the same line (the cooldown query's candidates)
LinePending(svc, line) ==
    {i \in 1..Len(txns) :
        txns[i].svc = svc /\ txns[i].line = line /\ txns[i].status = "pending"}

_lock_key_ref(service, client_ref) == <<"ref", service, client_ref>>
_lock_key_line(service, line) == <<"line", service, line>>

IdleReq ==
    [pc |-> "idle", svc |-> "airtime", ref |-> "R1", line |-> "L1", amt |-> 1,
     kind |-> "none", resp |-> "none", dup |-> FALSE, txn |-> 0, attempt |-> 0]

\* the handler has returned: its locals are gone
DoneReq == [IdleReq EXCEPT !.pc = "done"]

(***************************************************************************)
(* The wallet row lock.  A transaction.atomic() block that reads the wallet *)
(* with select_for_update() holds the row from that read to the end of the *)
(* block; a block takes two steps, the read that takes the lock and the    *)
(* rest up to the commit.                                                  *)
(***************************************************************************)
NoHolder == <<"none", 0>>
\* a lock that outlives its block
HeldOn(holder) == holder
\* leaving the with block commits and gives the row lock back
Released(holder) == NoHolder

(***************************************************************************)
(* AirtimePurchaseView.post / DataPurchaseView.post, one action per step   *)
(* between which other requests can run.                                   *)
(***************************************************************************)
\* lines 238-241: cache.add(k_ref) or cache.add(k_line); rejected when either is held
PurchaseStart(r, svc, ref, line, amt) ==
    /\ req[r].pc = "idle"
    /\ \A r2 \in ReqIds : r2 < r => req[r2].pc # "idle"
    /\ LET k_ref == _lock_key_ref(svc, ref)
           k_line == _lock_key_line(svc, line)
           mine == [req[r] EXCEPT !.svc = svc, !.ref = ref, !.line = line, !.amt = amt,
                                  !.dup = (RowsOf(svc, ref) # {})]
       IN  IF k_ref \in cache
           THEN /\ req' = [req EXCEPT ![r] = [mine EXCEPT !.pc = "rejected", !.resp = "429"]]
                /\ UNCHANGED cache
           ELSE IF k_line \in cache
           THEN /\ cache' = cache \cup {k_ref}
                /\ req' = [req EXCEPT ![r] = [mine EXCEPT !.pc = "rejected", !.resp = "429"]]
           ELSE /\ cache' = cache \cup {k_ref, k_line}
                /\ req' = [req EXCEPT ![r] = [mine EXCEPT !.pc = "check"]]
    /\ UNCHANGED <<balance, locked, txns, qry, swp, ledgerOps, vtpass, rowlock, mapVars, sale, otherVars>>

\* line 242: return 429, before the try block (its finally does not run)
PurchaseReject(r) ==
    /\ req[r].pc = "rejected"
    /\ req' = [req EXCEPT ![r] = DoneReq]
    /\ UNCHANGED <<balance, locked, txns, cache, qry, swp, ledgerOps, vtpass, rowlock, mapVars, sale, otherVars>>

\* lines 245-256: idempotency lookup, then the cooldown lookup on the line
PurchaseCheck(r) ==
    /\ req[r].pc = "check"
    /\ LET existing == FindTxn(req[r].svc, req[r].ref)
       IN  IF existing # 0
           THEN req' = [req EXCEPT ![r].pc = "finally", ![r].resp = "existing",
                                   ![r].txn = existing]
           ELSE \/ /\ LinePending(req[r].svc, req[r].line) # {}
                   /\ req' = [req EXCEPT ![r].pc = "finally", ![r].resp = "line_pending"]
                \/ req' = [req EXCEPT ![r].pc = "reserve"]
    /\ UNCHANGED <<balance, locked, txns, cache, qry, swp, ledgerOps, vtpass, rowlock, mapVars, sale, otherVars>>

\* lines 259-260 and 299-300: Wallet.objects.select_for_update().get(user=user)
PurchaseLock(r) ==
    /\ req[r].pc \in {"reserve", "settle"}
    /\ rowlock = NoHolder
    /\ rowlock' = <<"post", r>>
    /\ UNCHANGED <<balance, locked, txns, cache, req, qry, swp, ledgerOps, vtpass, mapVars, sale, otherVars>>

\* lines 261-285: the rest of the reservation transaction, under the wallet row lock
PurchaseReserve(r) ==
    /\ req[r].pc = "reserve"
    /\ rowlock = <<"post", r>>
    /\ rowlock' = Released(rowlock)
    /\ LET again == FindTxn(req[r].svc, req[r].ref)
       IN  IF again # 0
           THEN /\ req' = [req EXCEPT ![r].pc = "finally", ![r].resp = "existing",
                                      ![r].txn = again]
                /\ UNCHANGED <<balance, locked, txns>>
           ELSE IF balance < req[r].amt
           THEN /\ req' = [req EXCEPT ![r].pc = "finally", ![r].resp = "insufficient"]
                /\ UNCHANGED <<balance, locked, txns>>
           ELSE IF RowsOf(req[r].svc, req[r].ref) # {}
           THEN \* create() hits client_reference's unique index: IntegrityError,
                \* the transaction is rolled back
                /\ req' = [req EXCEPT ![r].pc = "error", ![r].kind = "raise"]
                /\ UNCHANGED <<balance, locked, txns>>
           ELSE /\ balance' = balance - req[r].amt
                /\ locked' = locked + req[r].amt
                /\ txns' = Append(txns,
                                  NewTxn(req[r].svc, req[r].ref, req[r].line, req[r].amt))
                /\ req' = [req EXCEPT ![r].pc = "call", ![r].txn = Len(txns) + 1]
    /\ UNCHANGED <<cache, qry, swp, ledgerOps, vtpass, mapVars, sale, otherVars>>

\* lines 288-296: the provider call, outside any transaction: one attempt of
\* purchase_airtime's _request.  A transport error (connect timeout, read timeout,
\* connection error) is followed by another attempt with the same payload while
\* attempts are left; the last one gives the code 999 sentinel.  Line 292:
\* _log_provider writes the ProviderLog row once purchase_airtime has returned.
PurchaseCall(r, kind, lands) ==
    /\ req[r].pc = "call"
    /\ LET rid == RequestIdOf(req[r].ref)
       IN  /\ PurchaseArrives(rid, kind, lands)
           /\ vtpass' = [vtpass EXCEPT ![rid] = lands]
           /\ txns' = [txns EXCEPT ![req[r].txn].calls =
                                       IF req[r].attempt = 0 THEN @ + 1 ELSE @,
                                   ![req[r].txn].rids = @ \cup {rid},
                                   ![req[r].txn].logs =
                                       IF kind = "neterr" /\ req[r].attempt < MAX_RETRIES
                                       THEN @ ELSE @ + 1]
    /\ req' = IF kind = "neterr" /\ req[r].attempt < MAX_RETRIES
              THEN [req EXCEPT ![r].attempt = @ + 1]
              ELSE [req EXCEPT ![r].pc = "settle", ![r].kind = kind, ![r].attempt = 0]
    /\ UNCHANGED <<balance, locked, cache, qry, swp, ledgerOps, rowlock, mapVars, sale, otherVars>>

\* the call was made and an exception came out of the parsing after it
PurchaseCallRaises(r, lands) ==
    /\ req[r].pc = "call"
    /\ LET rid == RequestIdOf(req[r].ref)
       IN  /\ PurchaseArrives(rid, "neterr", lands)
           /\ vtpass' = [vtpass EXCEPT ![rid] = lands]
           /\ txns' = [txns EXCEPT ![req[r].txn].calls =
                                       IF req[r].attempt = 0 THEN @ + 1 ELSE @,
                                   ![req[r].txn].rids = @ \cup {rid}]
    /\ req' = [req EXCEPT ![r].pc = "error", ![r].kind = "raise", ![r].attempt = 0]
    /\ UNCHANGED <<balance, locked, cache, qry, swp, ledgerOps, rowlock, mapVars, sale, otherVars>>

\* lines 301-331: the rest of settlement, under the wallet and row locks
PurchaseSettle(r) ==
    /\ req[r].pc = "settle"
    /\ rowlock = <<"post", r>>
    /\ rowlock' = Released(rowlock)
    /\ LET outcome == _map_vtpass_outcome(ProviderBody(req[r].kind))
           t == req[r].txn
           amt == req[r].amt
       IN  CASE outcome = "successful" ->
                  /\ txns' = [txns EXCEPT ![t].status = "successful",
                                          ![t].releases = @ + 1]
                  /\ locked' = locked - amt
                  /\ UNCHANGED balance
             [] outcome = "pending" ->
                  /\ txns' = [txns EXCEPT ![t].status = "pending"]
                  /\ UNCHANGED <<balance, locked>>
             [] OTHER ->
                  /\ txns' = [txns EXCEPT ![t].status = "failed",
                                          ![t].refunds = @ + 1,
                                          ![t].releases = @ + 1]
                  /\ locked' = locked - amt
                  /\ balance' = balance + amt
    /\ req' = [req EXCEPT ![r].pc = "finally", ![r].resp = "created"]
    /\ UNCHANGED <<cache, qry, swp, ledgerOps, vtpass, mapVars, sale, otherVars>>

\* lines 337-349: the except branch; the row stays as it is, 502
PurchaseError(r) ==
    /\ req[r].pc = "error"
    /\ req' = [req EXCEPT ![r].pc = "finally", ![r].resp = "502"]
    /\ UNCHANGED <<balance, locked, txns, cache, qry, swp, ledgerOps, vtpass, rowlock, mapVars, sale, otherVars>>

\* lines 350-352: finally: cache.delete(k_ref); cache.delete(k_line)
PurchaseFinally(r) ==
    /\ req[r].pc = "finally"
    /\ cache' = cache \ {_lock_key_ref(req[r].svc, req[r].ref),
                         _lock_key_line(req[r].svc, req[r].line)}
    /\ req' = [req EXCEPT ![r] = DoneReq]
    /\ UNCHANGED <<balance, locked, txns, qry, swp, ledgerOps, vtpass, rowlock, mapVars, sale, otherVars>>

\* a cache key reaches its timeout (LOCK_TTL, COOLDOWN_SEC) and is gone
CacheExpire(k) ==
    /\ k \in cache
    /\ cache' = cache \ {k}
    /\ UNCHANGED <<balance, locked, txns, req, qry, swp, ledgerOps, vtpass, rowlock, mapVars, sale, otherVars>>

(***************************************************************************)
(* wallets/models.py: q() and the ledger methods of Wallet.  An amount     *)
(* handed to a method is any decimal; it is given here in tenths of the    *)
(* wallet unit, so that q's truncation to the unit is computed.            *)
(***************************************************************************)
TWO_PLACES == 10          \* raw inputs per wallet unit (the unit is Decimal("0.01"))
MaxLedgerOps == 2         \* ledger method calls in a run
MaxWallet == 3            \* largest balance and locked a run of ledger calls starts from

\* quantization to the nearest unit, halves away from zero
RoundHalfUp(raw) ==
    IF raw >= 0 THEN (raw + (TWO_PLACES \div 2)) \div TWO_PLACES
    ELSE -(((-raw) + (TWO_PLACES \div 2)) \div TWO_PLACES)
\* quantize(TWO_PLACES, rounding=ROUND_DOWN): truncation toward zero
q(raw) == IF raw >= 0 THEN raw \div TWO_PLACES ELSE -((-raw) \div TWO_PLACES)

\* raw amounts handed to the ledger methods: negative, zero, below one unit,
\* whole units, and a unit and a half
RawAmounts ==
    {-TWO_PLACES, 0, TWO_PLACES - 1, TWO_PLACES, TWO_PLACES + (TWO_PLACES \div 2),
     2 * TWO_PLACES}

Larger(a, b) == IF a < b THEN b ELSE a
Min(a, b) == IF a < b THEN a ELSE b

\* the Transaction row a ledger method or a wallet endpoint creates
Entry(type, amount) == [type |-> type, amount |-> amount]

NoError == "none"
NoLedgerCall ==
    [op |-> "none", amount |-> 0, amt |-> 0, use_locked_first |-> FALSE, balance |-> 0,
     locked |-> 0, error |-> NoError]
\* a call of a ledger method with argument amount, quantized to amt, on the
\* wallet as it is
LedgerCall(op, amount, amt, use_locked_first, error) ==
    [op |-> op, amount |-> amount, amt |-> amt, use_locked_first |-> use_locked_first,
     balance |-> balance, locked |-> locked, error |-> error]

\* amt <= 0 raises ValueError("Amount must be > 0"): lines 71, 89, 109, 140
AmountRaisesNegative(amt) == amt < 0
AmountRaises(amt) == amt <= 0

\* the guards of the ledger methods, on the wallet row w read under the lock
LockRaisesOnBalance(w, amt) == w.balance < amt
LockRaises(w, amt) == w.balance - w.locked < amt            \* line 93
UnlockRaisesAtEqual(w, amt) == w.locked <= amt
UnlockRaises(w, amt) == w.locked < amt                       \* line 113
DebitRaises(w, amt) == w.balance < amt                       \* line 146

\* what the ledger methods make of the wallet row w they read under the lock
AfterCredit(w, amt) == [w EXCEPT !.balance = @ + amt]        \* line 76
AfterLock(w, amt) == [w EXCEPT !.locked = @ + amt]           \* line 96
AfterUnlockAsRefund(w, amt) == [w EXCEPT !.locked = @ - amt, !.balance = @ + amt]
AfterUnlock(w, amt) == [w EXCEPT !.locked = @ - amt]         \* line 116
\* lines 149-158: the locked part first, the balance, the clamp of locked
AfterDebit(w, amt, use_locked_first) ==
    LET from_locked == IF use_locked_first /\ w.locked > 0 THEN Min(w.locked, amt) ELSE 0
        new_locked == w.locked - from_locked
    IN  [balance |-> w.balance - amt,
         locked |-> IF new_locked < 0 THEN 0 ELSE new_locked]

Wallet == [balance |-> balance, locked |-> locked]

\* Wallet.credit, lines 65-81
WalletCredit(amount) ==
    /\ ledgerOps < MaxLedgerOps
    /\ rowlock = NoHolder         \* select_for_update() waits for a holder's commit
    /\ ledgerOps' = ledgerOps + 1
    /\ LET amt == q(amount)
       IN  IF AmountRaises(amt)
           THEN /\ lcall' = LedgerCall("credit", amount, amt, FALSE, "Amount must be > 0")
                /\ UNCHANGED <<balance, locked, ledger>>
           ELSE /\ balance' = AfterCredit(Wallet, amt).balance
                /\ ledger' = Append(ledger, Entry("credit", amt))
                /\ lcall' = LedgerCall("credit", amount, amt, FALSE, NoError)
                /\ UNCHANGED locked
    /\ UNCHANGED <<txns, cache, req, qry, swp, vtpass, rowlock, mapVars, sale, payVars, guardVars, apiVars>>

\* Wallet.lock_funds, lines 83-101
WalletLockFunds(amount) ==
    /\ ledgerOps < MaxLedgerOps
    /\ rowlock = NoHolder         \* select_for_update() waits for a holder's commit
    /\ ledgerOps' = ledgerOps + 1
    /\ LET amt == q(amount)
       IN  IF AmountRaises(amt)
           THEN /\ lcall' = LedgerCall("lock_funds", amount, amt, FALSE, "Amount must be > 0")
                /\ UNCHANGED <<balance, locked, ledger>>
           ELSE IF LockRaises(Wallet, amt)
           THEN /\ lcall' = LedgerCall("lock_funds", amount, amt, FALSE,
                                       "INSUFFICIENT_AVAILABLE_FUNDS")
                /\ UNCHANGED <<balance, locked, ledger>>
           ELSE /\ locked' = AfterLock(Wallet, amt).locked
                /\ ledger' = Append(ledger, Entry("lock", amt))
                /\ lcall' = LedgerCall("lock_funds", amount, amt, FALSE, NoError)
                /\ UNCHANGED balance
    /\ UNCHANGED <<txns, cache, req, qry, swp, vtpass, rowlock, mapVars, sale, payVars, guardVars, apiVars>>

\* Wallet.unlock_funds, lines 103-121
WalletUnlockFunds(amount) ==
    /\ ledgerOps < MaxLedgerOps
    /\ rowlock = NoHolder         \* select_for_update() waits for a holder's commit
    /\ ledgerOps' = ledgerOps + 1
    /\ LET amt == q(amount)
       IN  IF AmountRaises(amt)
           THEN /\ lcall' = LedgerCall("unlock_funds", amount, amt, FALSE, "Amount must be > 0")
                /\ UNCHANGED <<balance, locked, ledger>>
           ELSE IF UnlockRaises(Wallet, amt)
           THEN /\ lcall' = LedgerCall("unlock_funds", amount, amt, FALSE, "UNLOCK_EXCEEDS_LOCKED")
                /\ UNCHANGED <<balance, locked, ledger>>
           ELSE /\ locked' = AfterUnlock(Wallet, amt).locked
                /\ balance' = AfterUnlock(Wallet, amt).balance
                /\ ledger' = Append(ledger, Entry("unlock", amt))
                /\ lcall' = LedgerCall("unlock_funds", amount, amt, FALSE, NoError)
    /\ UNCHANGED <<txns, cache, req, qry, swp, vtpass, rowlock, mapVars, sale, payVars, guardVars, apiVars>>

\* Wallet.debit, lines 123-167
WalletDebit(amount, use_locked_first) ==
    /\ ledgerOps < MaxLedgerOps
    /\ rowlock = NoHolder         \* select_for_update() waits for a holder's commit
    /\ ledgerOps' = ledgerOps + 1
    /\ LET amt == q(amount)
           w == AfterDebit(Wallet, amt, use_locked_first)
       IN  IF AmountRaises(amt)
           THEN /\ lcall' = LedgerCall("debit", amount, amt, use_locked_first, "Amount must be > 0")
                /\ UNCHANGED <<balance, locked, ledger>>
           ELSE IF DebitRaises(Wallet, amt)
           THEN /\ lcall' = LedgerCall("debit", amount, amt, use_locked_first, "INSUFFICIENT_FUNDS")
                /\ UNCHANGED <<balance, locked, ledger>>
           ELSE IF w.balance < 0
           THEN /\ lcall' = LedgerCall("debit", amount, amt, use_locked_first,
                                       "NEGATIVE_BALANCE_GUARD")
                /\ UNCHANGED <<balance, locked, ledger>>
           ELSE /\ locked' = w.locked
                /\ balance' = w.balance
                /\ ledger' = Append(ledger, Entry("debit", amt))
                /\ lcall' = LedgerCall("debit", amount, amt, use_locked_first, NoError)
    /\ UNCHANGED <<txns, cache, req, qry, swp, vtpass, rowlock, mapVars, sale, payVars, guardVars, apiVars>>

(***************************************************************************)
(* PurchaseStatusView.get: the manual requery endpoint.                    *)
(***************************************************************************)
IdleQry == [pc |-> "idle", txn |-> 0, seen |-> "none", kind |-> "none"]
DoneQry == [IdleQry EXCEPT !.pc = "done"]

\* lines 500-503: the airtime row of that reference, else the data row, else 404
StatusLookup(ref) ==
    IF FindTxn("airtime", ref) # 0 THEN FindTxn("airtime", ref) ELSE FindTxn("data", ref)

StatusStart(n, ref) ==
    /\ qry[n].pc = "idle"
    /\ \A q2 \in QryIds : q2 < n => qry[q2].pc # "idle"
    /\ LET t == StatusLookup(ref)
       IN  IF t = 0
           THEN qry' = [qry EXCEPT ![n] = DoneQry]
           ELSE qry' = [qry EXCEPT ![n] = [pc |-> "call", txn |-> t,
                                           seen |-> txns[t].status, kind |-> "none"]]
    /\ UNCHANGED <<balance, locked, txns, cache, req, swp, ledgerOps, vtpass, rowlock, mapVars, sale, otherVars>>

\* lines 505-507: requery_status(client_reference), then _log_provider
StatusCall(n, kind) ==
    /\ qry[n].pc = "call"
    /\ kind \in RequeryAnswers(txns[qry[n].txn].ref)
    /\ qry' = [qry EXCEPT ![n].pc = "apply", ![n].kind = kind]
    /\ txns' = [txns EXCEPT ![qry[n].txn].rids = @ \cup {txns[qry[n].txn].ref},
                            ![qry[n].txn].logs = @ + 1]
    /\ UNCHANGED <<balance, locked, cache, req, swp, ledgerOps, vtpass, rowlock, mapVars, sale, otherVars>>

\* requery_status raises: the view answers 500 and nothing is written
StatusCallRaises(n) ==
    /\ qry[n].pc = "call"
    /\ qry' = [qry EXCEPT ![n] = DoneQry]
    /\ UNCHANGED <<balance, locked, txns, cache, req, swp, ledgerOps, vtpass, rowlock, mapVars, sale, otherVars>>

\* lines 509-514: compare with the status read at the start, save the new status
StatusApply(n) ==
    /\ qry[n].pc = "apply"
    /\ LET outcome == _map_vtpass_outcome(ProviderBody(qry[n].kind))
       IN  IF outcome # qry[n].seen
           THEN /\ txns' = [txns EXCEPT ![qry[n].txn].status = outcome]
                /\ qry' = [qry EXCEPT ![n] =
                              IF outcome \in {"failed", "successful"}
                              THEN [qry[n] EXCEPT !.pc = "wallet"]
                              ELSE DoneQry]
           ELSE /\ qry' = [qry EXCEPT ![n] = DoneQry]
                /\ UNCHANGED txns
    /\ UNCHANGED <<balance, locked, cache, req, swp, ledgerOps, vtpass, rowlock, mapVars, sale, otherVars>>

\* lines 518-519 and 532-533: Wallet.objects.select_for_update().get(user=request.user)
StatusLock(n) ==
    /\ qry[n].pc = "wallet"
    /\ rowlock = NoHolder
    /\ rowlock' = <<"status", n>>
    /\ UNCHANGED <<balance, locked, txns, cache, req, qry, swp, ledgerOps, vtpass, mapVars, sale, otherVars>>

\* lines 516-538: the rest of the wallet part, under the wallet row lock
StatusWallet(n) ==
    /\ qry[n].pc = "wallet"
    /\ rowlock = <<"status", n>>
    /\ rowlock' = Released(rowlock)
    /\ LET outcome == _map_vtpass_outcome(ProviderBody(qry[n].kind))
           t == qry[n].txn
           amount == txns[t].amount
           enough == locked # 0 /\ locked >= amount
       IN  IF outcome = "failed" /\ enough
           THEN /\ locked' = locked - amount
                /\ balance' = balance + amount
                /\ txns' = [txns EXCEPT ![t].refunds = @ + 1, ![t].releases = @ + 1]
           ELSE IF outcome = "successful" /\ enough
           THEN /\ locked' = locked - amount
                /\ txns' = [txns EXCEPT ![t].releases = @ + 1]
                /\ UNCHANGED balance
           ELSE UNCHANGED <<balance, locked, txns>>
    /\ qry' = [qry EXCEPT ![n] = DoneQry]
    /\ UNCHANGED <<cache, req, swp, ledgerOps, vtpass, mapVars, sale, otherVars>>

(***************************************************************************)
(* core/management/commands/requery_pending.py: the sweeper.               *)
(***************************************************************************)
MaxBatch == 2             \* --max of the command
NumSweeps == 1            \* runs of the command in a run of the model

\* errors: the lines the run has written to stderr
IdleSwp == [pc |-> "idle", batch |-> <<>>, kind |-> "none", runs |-> 0, errors |-> 0]

\* the pks of a set of rows in creation (timestamp) order
RECURSIVE InOrder(_)
InOrder(S) ==
    IF S = {} THEN <<>>
    ELSE LET m == CHOOSE i \in S : \A j \in S : i <= j
         IN  <<m>> \o InOrder(S \ {m})

FirstN(s, n) == SubSeq(s, 1, IF Len(s) < n THEN Len(s) ELSE n)

\* status__in=["initiated", "pending"], timestamp__lte=cutoff rows of one table,
\* oldest first.  Rows are in timestamp order, so those the cutoff takes in are
\* the first aged rows.
Eligible(svc, aged) ==
    InOrder({i \in 1..aged :
                txns[i].svc = svc /\ txns[i].status \in {"initiated", "pending"}})

\* lines 21-33: airtime rows up to --max, then data rows up to what remains.  The
\* command is run with --max max_items when aged rows have reached --age-mins.
SweepStart(max_items, aged) ==
    /\ swp.pc = "idle"
    /\ swp.runs < NumSweeps
    /\ LET airtime == FirstN(Eligible("airtime", aged), max_items)
           remaining == IF max_items - Len(airtime) > 0 THEN max_items - Len(airtime) ELSE 0
           batch == airtime \o FirstN(Eligible("data", aged), remaining)
       IN  swp' = [swp EXCEPT !.pc = IF batch = <<>> THEN "idle" ELSE "call",
                              !.batch = batch, !.runs = @ + 1]
    /\ UNCHANGED <<balance, locked, txns, cache, req, qry, ledgerOps, vtpass, rowlock, mapVars, sale, otherVars>>

\* the run ends at its first transaction
SweepAbort == [swp EXCEPT !.pc = "idle", !.batch = <<>>, !.kind = "none", !.errors = 0]
\* what is left of the batch after its first transaction; after the last one the
\* command returns
SweepNext ==
    [swp EXCEPT !.pc = IF Len(swp.batch) > 1 THEN "call" ELSE "idle",
                !.batch = Tail(swp.batch), !.kind = "none",
                !.errors = IF Len(swp.batch) > 1 THEN @ ELSE 0]
\* lines 61-62: the exception is written to stderr and the loop goes on
SweepReported ==
    [SweepNext EXCEPT !.errors = IF Len(swp.batch) > 1 THEN swp.errors + 1 ELSE 0]

\* lines 40-42: requery_status for the transaction at hand; the command writes
\* no ProviderLog row
SweepCall(kind) ==
    /\ swp.pc = "call"
    /\ kind \in RequeryAnswers(txns[Head(swp.batch)].ref)
    /\ swp' = [swp EXCEPT !.pc = "apply", !.kind = kind]
    /\ txns' = [txns EXCEPT ![Head(swp.batch)].rids = @ \cup {txns[Head(swp.batch)].ref}]
    /\ UNCHANGED <<balance, locked, cache, req, qry, ledgerOps, vtpass, rowlock, mapVars, sale, otherVars>>

\* line 40 raises: nothing was written
SweepCallRaises ==
    /\ swp.pc = "call"
    /\ swp' = SweepReported
    /\ UNCHANGED <<balance, locked, txns, cache, req, qry, ledgerOps, vtpass, rowlock, mapVars, sale, otherVars>>

\* line 54: Wallet.objects.select_for_update().get(user=tx.user), reached when the
\* new status is failed
SweepLock ==
    /\ swp.pc = "apply"
    /\ strict_map_outcome(ProviderBody(swp.kind)) = "failed"
    /\ rowlock = NoHolder
    /\ rowlock' = <<"sweeper", 0>>
    /\ UNCHANGED <<balance, locked, txns, cache, req, qry, swp, ledgerOps, vtpass, mapVars, sale, otherVars>>

\* lines 45-56 raise (tx.save fails, the wallet is missing, wallet.save fails):
\* the transaction is rolled back, and with it the saved status
SweepApplyRaises ==
    /\ swp.pc = "apply"
    /\ strict_map_outcome(ProviderBody(swp.kind)) # "pending"
    /\ rowlock' = IF rowlock = <<"sweeper", 0>> THEN Released(rowlock) ELSE rowlock
    /\ swp' = SweepReported
    /\ UNCHANGED <<balance, locked, txns, cache, req, qry, ledgerOps, vtpass, mapVars, sale, otherVars>>

\* lines 42-59: compare with the status the batch query read (initiated or pending),
\* then save the status and refund in one transaction; the refund is under the
\* wallet row lock
SweepApply ==
    /\ swp.pc = "apply"
    /\ IF strict_map_outcome(ProviderBody(swp.kind)) = "failed"
       THEN rowlock = <<"sweeper", 0>> /\ rowlock' = Released(rowlock)
       ELSE UNCHANGED rowlock
    /\ LET t == Head(swp.batch)
           new_status == strict_map_outcome(ProviderBody(swp.kind))
       IN  IF new_status # "pending"
           THEN IF new_status = "failed"
                THEN /\ txns' = [txns EXCEPT ![t].status = new_status,
                                             ![t].refunds = @ + 1]
                     /\ balance' = balance + txns[t].amount
                     /\ UNCHANGED locked
                ELSE /\ txns' = [txns EXCEPT ![t].status = new_status]
                     /\ UNCHANGED <<balance, locked>>
           ELSE UNCHANGED <<balance, locked, txns>>
    /\ swp' = SweepNext
    /\ UNCHANGED <<cache, req, qry, ledgerOps, vtpass, mapVars, sale, otherVars>>

(***************************************************************************)
(* payments/views.py: wallet funding through the gateway, for one          *)
(* PaymentIntent reference.  credits is history: how many times the wallet *)
(* was credited for the reference.  events is webhook_events, each payload *)
(* named by its delivery.                                                  *)
(***************************************************************************)
NumVerifies == 2          \* verify polls in a run
NumWebhooks == 2          \* webhook deliveries in a run

VfyIds == 1..NumVerifies
WhkIds == 1..NumWebhooks

NoIntent == [status |-> "none", amount |-> 0, credits |-> 0, events |-> <<>>]

IdleVfy == [pc |-> "idle", kind |-> "none"]
DoneVfy == [IdleVfy EXCEPT !.pc = "done"]
IdleWhk == [pc |-> "idle", event |-> "none", events |-> <<>>, resp |-> 0, log |-> "none"]
DoneWhk == [IdleWhk EXCEPT !.pc = "done", !.resp = 200]
RejectedWhk == [DoneWhk EXCEPT !.resp = 401]     \* "Invalid signature"
\* "Reference not found": 200, with the forensic ProviderLog row (endpoint "webhook")
NotFoundWhk == [DoneWhk EXCEPT !.log = "webhook"]

\* PaymentInitView.post, lines 54-90: the row is created and, once the gateway has
\* the reference, saved as pending; nobody else knows the reference before then
PaymentInit(amount) ==
    /\ intent.status = "none"
    /\ intent' = [NoIntent EXCEPT !.status = "pending", !.amount = amount]
    /\ paystack' = "abandoned"
    /\ UNCHANGED <<balance, shopVars, vfy, whk, rowlock, mapVars, sale, guardVars, apiVars>>

\* the customer completes the payment at the gateway, or the charge fails there
CustomerPays(result) ==
    /\ paystack = "abandoned"
    /\ paystack' = result
    /\ UNCHANGED <<balance, shopVars, intent, vfy, whk, rowlock, mapVars, sale, guardVars, apiVars>>

\* what a verify call can find: the transaction status the gateway holds, or a
\* body without data (an error page, a non-200 answer)
VerifyAnswers == {paystack, "error"}

\* lines 98-101: the intent is read, without a lock
VerifyStart(v) ==
    /\ vfy[v].pc = "idle"
    /\ \A v2 \in VfyIds : v2 < v => vfy[v2].pc # "idle"
    /\ vfy' = [vfy EXCEPT ![v] =
                  IF intent.status = "none" THEN DoneVfy ELSE [IdleVfy EXCEPT !.pc = "call"]]
    /\ UNCHANGED <<balance, shopVars, intent, paystack, whk, rowlock, mapVars, sale, guardVars, apiVars>>

\* line 103: ps_verify(reference)
VerifyCall(v, kind) ==
    /\ vfy[v].pc = "call"
    /\ kind \in VerifyAnswers
    /\ vfy' = [vfy EXCEPT ![v].pc = "apply", ![v].kind = kind]
    /\ UNCHANGED <<balance, shopVars, intent, paystack, whk, rowlock, mapVars, sale, guardVars, apiVars>>

\* ps_verify raises (timeout, connection error): nothing is written
VerifyCallRaises(v) ==
    /\ vfy[v].pc = "call"
    /\ vfy' = [vfy EXCEPT ![v] = DoneVfy]
    /\ UNCHANGED <<balance, shopVars, intent, paystack, whk, rowlock, mapVars, sale, guardVars, apiVars>>

\* _credit_wallet_once, lines 35-49, with PaymentIntent.mark_success: what it makes
\* of the wallet balance and of the intent row
CreditOnceBalance == IF intent.status = "success" THEN balance ELSE balance + intent.amount
CreditOnceIntent ==
    IF intent.status = "success" THEN intent
    ELSE [intent EXCEPT !.status = "success", !.credits = @ + 1]

\* lines 114-131: credit on success; otherwise the status is written, unguarded
VerifyApply(v) ==
    /\ vfy[v].pc = "apply"
    /\ IF vfy[v].kind = "success"
       THEN /\ balance' = CreditOnceBalance
            /\ intent' = CreditOnceIntent
       ELSE /\ intent' = [intent EXCEPT !.status =
                             IF vfy[v].kind \in {"failed", "abandoned"}
                             THEN "failed" ELSE "pending"]
            /\ UNCHANGED balance
    /\ vfy' = [vfy EXCEPT ![v] = DoneVfy]
    /\ UNCHANGED <<shopVars, paystack, whk, rowlock, mapVars, sale, guardVars, apiVars>>

\* payments/paystack.py valid_webhook: the header must be there and equal the HMAC
\* of the body; Hmac(key, body) stands for the digest
Hmac(key, body) == <<"hmac", key, body>>
NoSignature == <<>>       \* the header is absent or empty
\* a check of the header's presence only
HeaderPresent(signature_header, raw_body) == signature_header # NoSignature
valid_webhook(signature_header, raw_body) ==
    IF signature_header = NoSignature THEN FALSE
    ELSE Hmac("WEBHOOK_SECRET", raw_body) = signature_header

\* the events the gateway sends for the reference, signed with the shared secret
GatewayEvents ==
    (IF paystack = "success" THEN {"charge.success"} ELSE {})
        \cup (IF paystack = "failed" THEN {"charge.failed"} ELSE {})
        \cup (IF paystack # "none" THEN {"other"} ELSE {})

\* signature headers of a delivery with a body: the gateway's, a forger's, none
Signatures(body) == {Hmac("WEBHOOK_SECRET", body), Hmac("guess", body), NoSignature}

WebhookEvents == {"charge.success", "charge.failed", "other"}
WebhookRefs == {"P1", "P0"}      \* the intent's reference, and one no intent has

\* a lookup by status alone, whatever the reference
AnyIntentKnown(reference) == intent.status # "none"
\* PaymentIntent.objects.get(reference=reference) finds a row, lines 152-154
IntentKnown(reference) == reference = "P1" /\ intent.status # "none"

\* lines 138-157: signature check, then the intent is read, without a lock.  The
\* gateway signs, for the intent's reference, the events of its transaction, and
\* any event for references of the account that no intent has.
WebhookStart(w, event, reference, signature_header) ==
    /\ whk[w].pc = "idle"
    /\ \A w2 \in WhkIds : w2 < w => whk[w2].pc # "idle"
    /\ LET raw == <<event, reference>>
       IN  /\ (signature_header = Hmac("WEBHOOK_SECRET", raw) /\ reference = "P1")
                => event \in GatewayEvents
           /\ whk' = [whk EXCEPT ![w] =
                         IF ~valid_webhook(signature_header, raw) THEN RejectedWhk
                         ELSE IF ~IntentKnown(reference) THEN NotFoundWhk
                         ELSE [IdleWhk EXCEPT !.pc = "append", !.event = event,
                                               !.events = intent.events]]
    /\ UNCHANGED <<balance, shopVars, intent, paystack, vfy, rowlock, mapVars, sale, guardVars, apiVars>>

\* lines 160-166: the payload is appended to the list read at the start and saved
WebhookAppend(w) ==
    /\ whk[w].pc = "append"
    /\ intent' = [intent EXCEPT !.events = Append(whk[w].events, w)]
    /\ whk' = [whk EXCEPT ![w].pc = "process"]
    /\ UNCHANGED <<balance, shopVars, paystack, vfy, rowlock, mapVars, sale, guardVars, apiVars>>

\* lines 169-182: credit on charge.success, status failed on charge.failed
WebhookProcess(w) ==
    /\ whk[w].pc = "process"
    /\ CASE whk[w].event = "charge.success" ->
              /\ balance' = CreditOnceBalance
              /\ intent' = CreditOnceIntent
         [] whk[w].event = "charge.failed" ->
              /\ intent' = [intent EXCEPT !.status = "failed"]
              /\ UNCHANGED balance
         [] OTHER -> UNCHANGED <<balance, intent>>
    /\ whk' = [whk EXCEPT ![w] = DoneWhk]
    /\ UNCHANGED <<shopVars, paystack, vfy, rowlock, mapVars, sale, guardVars, apiVars>>

(***************************************************************************)
(* core/idempotency.py: ensure and finalize, for the keys of one user.     *)
(* get_or_create is a read and, on a miss, an insert under the table's     *)
(* unique (user, key); a caller that got a token runs its side effect and  *)
(* then calls finalize.                                                    *)
(***************************************************************************)
NumEnsures == 3           \* calls of ensure in a run

EnsIds == 1..NumEnsures
IdemKeys == {"K1", "K2"}

NoIdempotencyKey == [exists |-> FALSE, success |-> FALSE]
\* the row get_or_create(user=user, key=key) inserts: not yet a success
NewIdempotencyKey == [exists |-> TRUE, success |-> FALSE]

IdleEns == [pc |-> "idle", key |-> "K1", created |-> FALSE, success |-> FALSE,
            out |-> "none"]

\* line 8, get_or_create: the lookup
EnsureGet(c, key) ==
    /\ ens[c].pc = "idle"
    /\ \A c2 \in EnsIds : c2 < c => ens[c2].pc # "idle"
    /\ ens' = [ens EXCEPT ![c] =
                  IF idem[key].exists
                  THEN [IdleEns EXCEPT !.pc = "check", !.key = key,
                                       !.success = idem[key].success]
                  ELSE [IdleEns EXCEPT !.pc = "create", !.key = key]]
    /\ UNCHANGED <<purchaseVars, rowlock, mapVars, sale, payVars, idem, apiVars>>

\* lines 8-11, get_or_create: the insert after a miss; when another caller has
\* inserted the key meanwhile the insert fails and the row is read instead
EnsureCreate(c) ==
    /\ ens[c].pc = "create"
    /\ LET key == ens[c].key
       IN  IF idem[key].exists
           THEN /\ ens' = [ens EXCEPT ![c].pc = "check", ![c].created = FALSE,
                                      ![c].success = idem[key].success]
                /\ UNCHANGED idem
           ELSE /\ idem' = [idem EXCEPT ![key] = NewIdempotencyKey]
                /\ ens' = [ens EXCEPT ![c].pc = "check", ![c].created = TRUE,
                                      ![c].success = NewIdempotencyKey.success]
    /\ UNCHANGED <<purchaseVars, rowlock, mapVars, sale, payVars, apiVars>>

\* does ensure raise DuplicateRequest, line 12
EnsureRaises(created, success) == ~created /\ success

\* lines 12-14: raise DuplicateRequest, or return the row as the token
EnsureReturn(c) ==
    /\ ens[c].pc = "check"
    /\ ens' = [ens EXCEPT ![c].pc =
                       IF EnsureRaises(ens[c].created, ens[c].success)
                       THEN "done" ELSE "work",
                   ![c].out =
                       IF EnsureRaises(ens[c].created, ens[c].success)
                       THEN "DuplicateRequest" ELSE "token"]
    /\ UNCHANGED <<purchaseVars, rowlock, mapVars, sale, payVars, idem, apiVars>>

\* the caller that holds a token runs the guarded side effect
GuardedEffect(c) ==
    /\ ens[c].pc = "work"
    /\ ens' = [ens EXCEPT ![c].pc = "finalize"]
    /\ UNCHANGED <<purchaseVars, rowlock, mapVars, sale, payVars, idem, apiVars>>

\* finalize, lines 16-17: filter(user, key).update(success=True)
Finalize(c) ==
    /\ ens[c].pc = "finalize"
    /\ idem' = [idem EXCEPT ![ens[c].key].success = idem[ens[c].key].exists]
    /\ ens' = [ens EXCEPT ![c].pc = "done"]
    /\ UNCHANGED <<purchaseVars, rowlock, mapVars, sale, payVars, apiVars>>

(***************************************************************************)
(* wallets/serializers.py behind wallets/views.py: the credit, lock and    *)
(* unlock endpoints.  Each reads the wallet row with a plain get, works on *)
(* that object and writes it back with save(), which writes every field.   *)
(***************************************************************************)
NumApiCalls == 3          \* wallet endpoint requests in a run

ApiIds == 1..NumApiCalls
ApiOps == {"credit", "lock", "unlock"}

IdleApi == [pc |-> "idle", op |-> "none", amount |-> 0, balance |-> 0, locked |-> 0]

\* the ValidationError of LockSerializer.save (line 44) and UnlockSerializer.save
\* (line 62), on the wallet object w
ApiRejects(w, op, amount) ==
    CASE op = "lock" -> amount > w.balance - w.locked
      [] op = "unlock" -> amount > w.locked
      [] OTHER -> FALSE

\* what save() of the serializer makes of the wallet object w: lines 27, 46, 64
ApiApply(w, op, amount) ==
    CASE op = "credit" -> [w EXCEPT !.balance = @ + amount]
      [] op = "lock" -> [w EXCEPT !.locked = @ + amount]
      [] op = "unlock" -> [w EXCEPT !.locked = @ - amount]

\* Wallet.objects.get(user=user): lines 26, 42, 61
ApiRead(a, op, amount) ==
    /\ wapi[a].pc = "idle"
    /\ \A a2 \in ApiIds : a2 < a => wapi[a2].pc # "idle"
    /\ wapi' = [wapi EXCEPT ![a] = [pc |-> "save", op |-> op, amount |-> amount,
                                    balance |-> balance, locked |-> locked]]
    /\ UNCHANGED <<purchaseVars, rowlock, mapVars, sale, payVars, guardVars>>

\* the rest of save(): the check, the change on the object read, wallet.save()
ApiSave(a) ==
    /\ wapi[a].pc = "save"
    /\ LET w == [balance |-> wapi[a].balance, locked |-> wapi[a].locked]
           op == wapi[a].op
           amount == wapi[a].amount
       IN  IF ApiRejects(w, op, amount)
           THEN /\ wapi' = [wapi EXCEPT ![a] = [IdleApi EXCEPT !.pc = "rejected"]]
                /\ UNCHANGED <<balance, locked, ledger>>
           ELSE /\ balance' = ApiApply(w, op, amount).balance
                /\ locked' = ApiApply(w, op, amount).locked
                /\ ledger' = Append(ledger, Entry(op, amount))
                /\ wapi' = [wapi EXCEPT ![a] =
                                [IdleApi EXCEPT !.pc = "done", !.op = op,
                                                !.amount = amount]]
    /\ UNCHANGED <<txns, cache, req, qry, swp, ledgerOps, vtpass, lcall>>
    /\ UNCHANGED <<rowlock, mapVars, sale, payVars, guardVars>>

(***************************************************************************)
(* Specifications.                                                         *)
(***************************************************************************)
NoOutcome == [strict |-> "none", views |-> "none"]

InitMapIdle ==
    /\ mapBody = JNull
    /\ mapOut = NoOutcome

InitPurchase ==
    /\ balance = InitBalance
    /\ locked = 0
    /\ txns = <<>>
    /\ cache = {}
    /\ req = [r \in ReqIds |-> IdleReq]
    /\ qry = [n \in QryIds |-> IdleQry]
    /\ swp = IdleSwp
    /\ ledgerOps = 0
    /\ ledger = <<>>
    /\ lcall = NoLedgerCall
    /\ rowlock = NoHolder
    /\ vtpass = [request_id \in Refs \cup {GeneratedId} |-> "unknown"]

InitPay ==
    /\ intent = NoIntent
    /\ paystack = "none"
    /\ vfy = [v \in VfyIds |-> IdleVfy]
    /\ whk = [w \in WhkIds |-> IdleWhk]

InitGuard ==
    /\ idem = [key \in IdemKeys |-> NoIdempotencyKey]
    /\ ens = [c \in EnsIds |-> IdleEns]

InitApi == wapi = [a \in ApiIds |-> IdleApi]

(***************************************************************************)
(* The amount of an airtime purchase: what the serializer accepts, what    *)
(* the view reserves and what purchase_airtime puts in the payload.  The   *)
(* amounts are in kobo, the 0.01 step of the serializer's DecimalField.    *)
(***************************************************************************)
KoboPerNaira == 100       \* decimal_places=2: a naira is 100 steps of 0.01
MaxKobo == 250            \* largest request amount, in kobo

NoSale == [pc |-> "idle", amount |-> 0, amt |-> 0, sent |-> 0]

\* serializers.py 125-137: DecimalField(decimal_places=2) and validate_amount
AirtimeAmountValid(amount) == amount > 0

\* vtpass.py 250-256, "amount": int(float(amount)): the whole naira of the amount,
\* its kobo dropped
PayloadAmount(amount) == amount \div KoboPerNaira

InitSaleIdle == sale = NoSale

\* a validated request amount arrives at AirtimePurchaseView.post
InitSale ==
    \E amount \in 0..MaxKobo :
        /\ AirtimeAmountValid(amount)
        /\ sale = [NoSale EXCEPT !.pc = "reserve", !.amount = amount]

\* views.py 233 and 270-273: amt = Decimal(str(amount)) goes off balance and on locked
SaleReserve ==
    /\ sale.pc = "reserve"
    /\ sale' = [sale EXCEPT !.pc = "call", !.amt = sale.amount]
    /\ UNCHANGED <<purchaseVars, rowlock, payVars, guardVars, apiVars, mapVars>>

\* views.py 288 with vtpass.py 250-256: the payload's amount, in naira
SaleCall ==
    /\ sale.pc = "call"
    /\ sale' = [sale EXCEPT !.pc = "sent", !.sent = PayloadAmount(sale.amt)]
    /\ UNCHANGED <<purchaseVars, rowlock, payVars, guardVars, apiVars, mapVars>>

Init == InitPurchase /\ InitPay /\ InitMapIdle /\ InitGuard /\ InitApi /\ InitSaleIdle

\* the steps of a purchase POST after its first
PurchaseStep(r) ==
    \/ PurchaseReject(r)
    \/ PurchaseCheck(r)
    \/ PurchaseLock(r)
    \/ PurchaseReserve(r)
    \/ \E kind \in ResponseKinds, lands \in ProviderStates : PurchaseCall(r, kind, lands)
    \/ \E lands \in ProviderStates : PurchaseCallRaises(r, lands)
    \/ PurchaseSettle(r)
    \/ PurchaseError(r)
    \/ PurchaseFinally(r)

StatusStep(n) ==
    \/ \E ref \in Refs : StatusStart(n, ref)
    \/ \E kind \in RequeryKinds : StatusCall(n, kind)
    \/ StatusCallRaises(n)
    \/ StatusApply(n)
    \/ StatusLock(n)
    \/ StatusWallet(n)

LedgerStep ==
    \/ \E amount \in RawAmounts : WalletCredit(amount)
    \/ \E amount \in RawAmounts : WalletLockFunds(amount)
    \/ \E amount \in RawAmounts : WalletUnlockFunds(amount)
    \/ \E amount \in RawAmounts, use_locked_first \in BOOLEAN :
          WalletDebit(amount, use_locked_first)

ProviderStep ==
    \E request_id \in Refs, outcome \in {"delivered", "declined"} :
        ProviderSettles(request_id, outcome)

\* the sweeper, run with the largest --max once every row has reached the age
SweepStep ==
    \/ SweepStart(MaxBatch, Len(txns))
    \/ \E kind \in RequeryKinds : SweepCall(kind)
    \/ SweepCallRaises
    \/ SweepLock
    \/ SweepApplyRaises
    \/ SweepApply

\* Purchase life cycle: purchases of the smallest amount on one line of the airtime
\* endpoint, the manual requery, the sweeper and the provider, all running
\* concurrently.  References are interchangeable, so the first POST is given the
\* first.
Next ==
    \/ \E r \in ReqIds :
          \E ref \in (IF r = 1 THEN {"R1"} ELSE Refs) :
              PurchaseStart(r, "airtime", ref, "L1", MinAmount)
    \/ \E r \in ReqIds : PurchaseStep(r)
    \/ \E n \in QryIds : StatusStep(n)
    \/ SweepStep
    \/ ProviderStep

Spec == Init /\ [][Next]_vars

\* Duplicate and concurrent submissions: purchase POSTs of the smallest amount on
\* both endpoints and lines, with cache keys timing out.  References and lines
\* are interchangeable, so the first POST is given the first of each.
NextSubmit ==
    \/ \E r \in ReqIds, svc \in Services :
          \E ref \in (IF r = 1 THEN {"R1"} ELSE Refs),
             line \in (IF r = 1 THEN {"L1"} ELSE Lines) :
              PurchaseStart(r, svc, ref, line, MinAmount)
    \/ \E r \in ReqIds : PurchaseStep(r)
    \/ \E k \in cache : CacheExpire(k)
    \/ ProviderStep

SpecSubmit == Init /\ [][NextSubmit]_vars

\* The sweeper over both tables: airtime purchases with one client_reference and
\* data purchases with another, and the command run with any --max and any number
\* of rows old enough.
NextSweep ==
    \/ \E r \in ReqIds : PurchaseStart(r, "airtime", "R1", "L1", MinAmount)
    \/ \E r \in ReqIds : PurchaseStart(r, "data", "R2", "L1", MinAmount)
    \/ \E r \in ReqIds : PurchaseStep(r)
    \/ \E max_items \in 1..MaxBatch, aged \in 0..Len(txns) : SweepStart(max_items, aged)
    \/ SweepStep
    \/ ProviderStep

SpecSweep == Init /\ [][NextSweep]_vars

\* Reconciliation: one purchase POST, then, once it has returned, a run of the
\* sweeper whose requeries are answered and whose writes go through.  Every
\* handler that can take a step eventually takes one.
NextReconcile ==
    \/ \E amt \in Amounts : PurchaseStart(1, "airtime", "R1", "L1", amt)
    \/ PurchaseCheck(1)
    \/ PurchaseLock(1)
    \/ PurchaseReserve(1)
    \/ \E kind \in ResponseKinds, lands \in ProviderStates : PurchaseCall(1, kind, lands)
    \/ \E lands \in ProviderStates : PurchaseCallRaises(1, lands)
    \/ PurchaseSettle(1)
    \/ PurchaseError(1)
    \/ PurchaseFinally(1)
    \/ ProviderStep
    \/ (req[1].pc = "done" /\ SweepStart(MaxBatch, Len(txns)))
    \/ \E kind \in RequeryKinds \ {"neterr"} : SweepCall(kind)
    \/ SweepLock
    \/ SweepApply

SpecReconcile == Init /\ [][NextReconcile]_vars /\ WF_vars(NextReconcile)

\* Purchases against a wallet that is also moved by a call of a ledger method.
NextWallet ==
    \/ \E r \in ReqIds, ref \in Refs, amt \in Amounts :
          PurchaseStart(r, "airtime", ref, "L1", amt)
    \/ \E r \in ReqIds : PurchaseStep(r)
    \/ (ledgerOps = 0 /\ LedgerStep)
    \/ ProviderStep

SpecWallet == Init /\ [][NextWallet]_vars

\* The ledger methods alone, called one after the other on a wallet that starts
\* with any balance and locked the program can leave it with.
InitLedger ==
    /\ balance \in 0..MaxWallet
    /\ locked \in 0..MaxWallet
    /\ txns = <<>>
    /\ cache = {}
    /\ req = [r \in ReqIds |-> IdleReq]
    /\ qry = [n \in QryIds |-> IdleQry]
    /\ swp = IdleSwp
    /\ ledgerOps = 0
    /\ ledger = <<>>
    /\ lcall = NoLedgerCall
    /\ rowlock = NoHolder
    /\ vtpass = [request_id \in Refs \cup {GeneratedId} |-> "unknown"]
    /\ InitPay
    /\ InitMapIdle
    /\ InitGuard
    /\ InitApi
    /\ InitSaleIdle

NextLedger == LedgerStep

SpecLedger == InitLedger /\ [][NextLedger]_vars

\* Wallet funding: one payment intent, verify polls, webhook deliveries and the
\* customer at the gateway, all running concurrently.
NextPay ==
    \/ \E amount \in Amounts : PaymentInit(amount)
    \/ \E result \in {"success", "failed"} : CustomerPays(result)
    \/ \E v \in VfyIds : VerifyStart(v)
    \/ \E v \in VfyIds, kind \in {"abandoned", "success", "failed", "error"} :
          VerifyCall(v, kind)
    \/ \E v \in VfyIds : VerifyCallRaises(v)
    \/ \E v \in VfyIds : VerifyApply(v)
    \/ \E w \in WhkIds, event \in WebhookEvents, reference \in WebhookRefs :
          \E signature_header \in Signatures(<<event, reference>>) :
              WebhookStart(w, event, reference, signature_header)
    \/ \E w \in WhkIds : WebhookAppend(w)
    \/ \E w \in WhkIds : WebhookProcess(w)

SpecPay == Init /\ [][NextPay]_vars

\* Webhook deliveries alone: one payment intent, the customer at the gateway, and
\* deliveries with genuine, forged and missing signatures running concurrently.
NextHook ==
    \/ \E amount \in Amounts : PaymentInit(amount)
    \/ \E result \in {"success", "failed"} : CustomerPays(result)
    \/ \E w \in WhkIds, event \in WebhookEvents, reference \in WebhookRefs :
          \E signature_header \in Signatures(<<event, reference>>) :
              WebhookStart(w, event, reference, signature_header)
    \/ \E w \in WhkIds : WebhookAppend(w)
    \/ \E w \in WhkIds : WebhookProcess(w)

SpecHook == Init /\ [][NextHook]_vars

\* The idempotency guard: callers of ensure on the keys of one user, each going
\* on to its side effect and finalize when it gets a token, all running
\* concurrently.
NextGuard ==
    \/ \E c \in EnsIds, key \in IdemKeys : EnsureGet(c, key)
    \/ \E c \in EnsIds : EnsureCreate(c)
    \/ \E c \in EnsIds : EnsureReturn(c)
    \/ \E c \in EnsIds : GuardedEffect(c)
    \/ \E c \in EnsIds : Finalize(c)

SpecGuard == Init /\ [][NextGuard]_vars

\* The wallet endpoints: credit, lock and unlock requests on one wallet, running
\* concurrently.
NextApi ==
    \/ \E a \in ApiIds, op \in ApiOps, amount \in Amounts : ApiRead(a, op, amount)
    \/ \E a \in ApiIds : ApiSave(a)

SpecApi == Init /\ [][NextApi]_vars

(***************************************************************************)
(* Outcome mapping as a state machine: a body arrives, both mappings are   *)
(* applied to it.                                                          *)
(***************************************************************************)
InitMap ==
    /\ InitPurchase
    /\ InitPay
    /\ InitGuard
    /\ InitApi
    /\ InitSaleIdle
    /\ mapBody \in Bodies
    /\ mapOut = NoOutcome

ApplyMapping ==
    /\ mapOut = NoOutcome
    /\ mapOut' = [strict |-> strict_map_outcome(mapBody),
                  views |-> _map_vtpass_outcome(mapBody)]
    /\ UNCHANGED mapBody
    /\ UNCHANGED <<purchaseVars, rowlock, payVars, guardVars, apiVars, sale>>

NextMap == ApplyMapping

SpecMap == InitMap /\ [][NextMap]_vars

\* One airtime amount, any the serializer accepts, reserved and transmitted.
InitAmount == InitPurchase /\ InitPay /\ InitMapIdle /\ InitGuard /\ InitApi /\ InitSale

NextAmount ==
    \/ SaleReserve
    \/ SaleCall

SpecAmount == InitAmount /\ [][NextAmount]_vars

(***************************************************************************)
(* Properties.                                                             *)
(***************************************************************************)
TxnIds == 1..Len(txns)

Terminal(status) == status \in {"successful", "failed"}

\* what the wallet has gained or lost on behalf of a row since just before its
\* reservation: the reservation took amount off balance and put it on locked,
\* each refund gave amount back to balance, each release took it off locked
BalanceEffect(t) == txns[t].amount * (txns[t].refunds - 1)
LockedEffect(t) == txns[t].amount * (1 - txns[t].releases)
AvailableEffect(t) == BalanceEffect(t) - LockedEffect(t)

\* a manual requery has written the row's new status and has yet to do its wallet part
WalletPartDue(t) == \E n \in QryIds : qry[n].pc = "wallet" /\ qry[n].txn = t

\* C1: in every reachable state the wallet has balance >= 0, locked >= 0 and
\* balance >= locked.
C1_WalletInvariant ==
    /\ balance >= 0
    /\ locked >= 0
    /\ balance >= locked

\* C2 (as the code has it): for each endpoint and client_reference there is never
\* more than one row, never more than one purchase call for it, and the balance is
\* down by each unrefunded row's amount once; a submission that finds the row
\* already there gets that row back, and one turned away with 429 gets nothing, and
\* neither changes the rows or the wallet.
RECURSIVE SumBalanceEffect(_)
SumBalanceEffect(t) == IF t = 0 THEN 0 ELSE BalanceEffect(t) + SumBalanceEffect(t - 1)

C2_OneRowOneCallOneCharge ==
    /\ \A svc \in Services, ref \in Refs : Cardinality(RowsOf(svc, ref)) <= 1
    /\ \A t \in TxnIds : txns[t].calls <= 1
    /\ balance = InitBalance + SumBalanceEffect(Len(txns))

C2_DuplicateChangesNothing ==
    \A r \in ReqIds :
        /\ (/\ req[r].pc \in {"check", "reserve"}
            /\ req'[r] # req[r]
            /\ RowsOf(req[r].svc, req[r].ref) # {})
               => /\ req'[r].pc = "finally"
                  /\ req'[r].resp = "existing"
                  /\ req'[r].txn \in RowsOf(req[r].svc, req[r].ref)
                  /\ txns' = txns /\ balance' = balance /\ locked' = locked
        /\ (req[r].pc \in {"idle", "rejected"} /\ req'[r] # req[r])
               => (txns' = txns /\ balance' = balance /\ locked' = locked)
        /\ (req[r].pc = "idle" /\ req'[r].pc = "rejected") => req'[r].resp = "429"

C3_CreditedAtMostOnce == intent.credits <= 1

\* C4: a purchase that has become failed has had its amount refunded exactly once:
\* no row is ever refunded twice, and no row is failed without its refund.
C4_RefundExactlyOnce ==
    \A t \in TxnIds :
        /\ txns[t].refunds <= 1
        /\ (txns[t].status = "failed" /\ ~WalletPartDue(t)) => txns[t].refunds = 1

\* C5: once a purchase has gone pending -> failed and been reversed, balance and
\* available funds (balance - locked) are what they were before the purchase.
C5_Conservation ==
    \A t \in TxnIds :
        (txns[t].status = "failed" /\ ~WalletPartDue(t))
            => (BalanceEffect(t) = 0 /\ AvailableEffect(t) = 0)

\* C6: successful and failed are terminal: no step changes the status of a row that
\* is successful or failed, and none moves the wallet on its behalf (apart from the
\* wallet part of the very requery that has just written that status).
C6_Terminal ==
    [][\A t \in TxnIds :
          Terminal(txns[t].status)
              => /\ txns'[t].status = txns[t].status
                 /\ (\/ txns'[t].refunds # txns[t].refunds
                     \/ txns'[t].releases # txns[t].releases) => WalletPartDue(t)]_vars

\* C7: a transport failure of the purchase call or of a requery leaves the purchase
\* as it is, pending with its funds reserved: the step that handles the failure
\* changes neither the rows nor the wallet.
C7_TransportFailureKeepsPending ==
    [][/\ \A r \in ReqIds :
            (req[r].pc = "settle" /\ req[r].kind = "neterr" /\ req'[r] # req[r])
                => (txns' = txns /\ balance' = balance /\ locked' = locked)
       /\ \A n \in QryIds :
            (qry[n].pc \in {"apply", "wallet"} /\ qry[n].kind = "neterr" /\ qry'[n] # qry[n])
                => (txns' = txns /\ balance' = balance /\ locked' = locked)
       /\ (swp.pc = "apply" /\ swp.kind = "neterr" /\ swp' # swp)
                => (txns' = txns /\ balance' = balance /\ locked' = locked)]_vars

\* C8 (as the code has it): a body that is not an object, or whose content or
\* content.transactions is there and not an object, maps to failed; any other body
\* maps by its code, trimmed, and its transactions.status, lower-cased: successful
\* iff the code is "000" and the status "delivered", otherwise pending iff the status
\* is "pending" or the code is "099" or "016", otherwise failed.  Both mapping
\* functions give this outcome.  The raw values are listed here as they arrive.
WellFormed(body) ==
    /\ body.kind = "dict"
    /\ body.content.kind \in {"missing", "dict"}
    /\ body.content.kind = "dict" => body.content.transactions.kind \in {"missing", "dict"}

RawStatus(body) ==
    IF body.content.kind = "dict" /\ body.content.transactions.kind = "dict"
    THEN body.content.transactions.status
    ELSE Missing

ExpectedOutcome(body) ==
    IF ~WellFormed(body) THEN "failed"
    ELSE IF /\ body.code \in {JStr(S000), JStr(SPadded000)}
            /\ RawStatus(body) \in {JStr(SDelivered), JStr(SDeliveredCap)}
    THEN "successful"
    ELSE IF \/ RawStatus(body) \in {JStr(SPending), JStr(SPendingUp)}
            \/ body.code \in {JStr(S099), JStr(S016)}
    THEN "pending"
    ELSE "failed"

LiteralOutcome(body) ==
    IF ~WellFormed(body) THEN "failed"
    ELSE IF body.code = JStr(S000) /\ RawStatus(body) = JStr(SDelivered) THEN "successful"
    ELSE IF RawStatus(body) = JStr(SPending) \/ body.code \in {JStr(S099), JStr(S016)}
    THEN "pending"
    ELSE "failed"

C9_AvailableFundsRequired ==
    [][\A r \in ReqIds :
          (req[r].pc = "reserve" /\ req'[r] # req[r] /\ balance - locked < req[r].amt)
              => (req'[r].pc = "finally" /\ txns' = txns
                  /\ balance' = balance /\ locked' = locked)]_vars

\* C10: when the response to the purchase call maps to successful, settlement leaves
\* the row successful, balance at its pre-purchase value less the amount, and locked
\* at its pre-purchase value.
C10_SuccessfulFinalState ==
    [][\A r \in ReqIds :
          (/\ req[r].pc = "settle"
           /\ req'[r] # req[r]
           /\ _map_vtpass_outcome(ProviderBody(req[r].kind)) = "successful")
              => LET t == req[r].txn
                 IN  /\ txns'[t].status = "successful"
                     /\ txns'[t].amount * (txns'[t].refunds - 1) = -txns'[t].amount
                     /\ txns'[t].amount * (1 - txns'[t].releases) = 0]_vars


\* C11: each delivery of the gateway's signed charge.success webhook for the known
\* reference, once processed, credits the wallet by the intent amount and leaves
\* the intent in status success when the reference was not yet credited, and
\* changes neither the wallet balance nor the intent status when it already was.
C11_WebhookReplayCreditsOnce ==
    [][\A w \in WhkIds :
          (whk[w].pc = "process" /\ whk[w].event = "charge.success"
              /\ whk'[w].pc = "done")
          => IF intent.credits = 0
             THEN balance' = balance + intent.amount /\ intent'.status = "success"
             ELSE balance' = balance /\ intent'.status = intent.status]_vars

\* C12: a webhook delivery whose signature header is missing, or is not the HMAC of
\* the raw body under the shared secret, is answered 401 at once: the handler is
\* finished, and the wallet, the intent (status and event list) and everything
\* else are as they were.
C12_InvalidSignatureRejected ==
    [][\A w \in WhkIds, event \in WebhookEvents, reference \in WebhookRefs :
          \A signature_header \in Signatures(<<event, reference>>) :
              (/\ WebhookStart(w, event, reference, signature_header)
               /\ signature_header # Hmac("WEBHOOK_SECRET", <<event, reference>>))
              => /\ whk' = [whk EXCEPT ![w] = RejectedWhk]
                 /\ UNCHANGED <<balance, intent, paystack, vfy, shopVars>>]_vars

\* a delivery was rejected for its signature while the intent could be credited
C12_ForgedDeliveryRejected ==
    /\ intent.status = "pending"
    /\ \E w \in WhkIds : whk[w] = RejectedWhk

\* C13: for each key at most one call of ensure returns a token, every other call
\* raises DuplicateRequest, and so the guarded side effect runs at most once.
TokensFor(key) == {c \in EnsIds : ens[c].key = key /\ ens[c].out = "token"}
EffectsFor(key) == {c \in TokensFor(key) : ens[c].pc \in {"finalize", "done"}}

C13_AtMostOnce ==
    \A key \in IdemKeys :
        /\ Cardinality(TokensFor(key)) <= 1
        /\ Cardinality(EffectsFor(key)) <= 1

\* C14: the wallet is always what some serial order of the wallet endpoint requests
\* that changed it would have made of it, each applied whole to the wallet the
\* one before it left: no update is lost.
AppliedCalls == {a \in ApiIds : wapi[a].pc = "done"}
Orders(S) == {f \in [1..Cardinality(S) -> S] : \A i, j \in DOMAIN f : f[i] = f[j] => i = j}

RECURSIVE SerialWallet(_, _, _)
SerialWallet(w, order, i) ==
    IF i > Len(order) THEN w
    ELSE LET a == order[i]
         IN  SerialWallet(IF ApiRejects(w, wapi[a].op, wapi[a].amount) THEN w
                          ELSE ApiApply(w, wapi[a].op, wapi[a].amount),
                          order, i + 1)

C14_Serialized ==
    \E order \in Orders(AppliedCalls) :
        SerialWallet([balance |-> InitBalance, locked |-> 0], order, 1)
            = [balance |-> balance, locked |-> locked]

\* a step that is a call of the ledger method op; lcall' holds the call: its
\* quantized amount, the wallet it started from and the error it raised
LedgerCalled(op) == ledgerOps' = ledgerOps + 1 /\ lcall'.op = op

\* C15: after a successful debit, with or without use_locked_first, of a wallet
\* that had 0 <= locked <= balance, the wallet has balance >= 0, locked >= 0 and
\* balance - locked >= 0.
C15_DebitPostcondition ==
    [][(/\ LedgerCalled("debit")
        /\ lcall'.error = NoError
        /\ 0 <= locked /\ locked <= balance)
       => (balance' >= 0 /\ locked' >= 0 /\ balance' - locked' >= 0)]_vars

C17_LockFunds ==
    [][(LedgerCalled("lock_funds") /\ lcall'.amt > 0)
       => IF balance - locked >= lcall'.amt
          THEN /\ lcall'.error = NoError
               /\ locked' = locked + lcall'.amt
               /\ balance' = balance
          ELSE /\ lcall'.error = "INSUFFICIENT_AVAILABLE_FUNDS"
               /\ UNCHANGED <<balance, locked, ledger>>]_vars

\* lock_funds was refused although the balance alone covered the amount
C17_LockRefusedOnAvailable ==
    /\ lcall.op = "lock_funds" /\ lcall.error = "INSUFFICIENT_AVAILABLE_FUNDS"
    /\ lcall.balance >= lcall.amt
    /\ balance = lcall.balance /\ locked = lcall.locked

\* C18: unlock_funds of a (quantized) amount > 0 succeeds iff locked >= amount;
\* then locked goes down by exactly the amount and balance is unchanged;
\* otherwise it raises UNLOCK_EXCEEDS_LOCKED and balance, locked and the ledger
\* are unchanged.
C18_UnlockFunds ==
    [][(LedgerCalled("unlock_funds") /\ lcall'.amt > 0)
       => IF locked >= lcall'.amt
          THEN /\ lcall'.error = NoError
               /\ locked' = locked - lcall'.amt
               /\ balance' = balance
          ELSE /\ lcall'.error = "UNLOCK_EXCEEDS_LOCKED"
               /\ UNCHANGED <<balance, locked, ledger>>]_vars

\* unlock_funds released all that was locked
C18_UnlockedAll ==
    /\ lcall.op = "unlock_funds" /\ lcall.error = NoError
    /\ lcall.locked = lcall.amt
    /\ locked = 0 /\ balance = lcall.balance

C20_Credit ==
    [][LedgerCalled("credit")
       => IF lcall'.amt > 0
          THEN /\ lcall'.error = NoError
               /\ balance' = balance + lcall'.amt
               /\ locked' = locked
          ELSE /\ lcall'.error # NoError
               /\ UNCHANGED <<balance, locked, ledger>>]_vars

\* a credit went through on a wallet with locked funds
C20_Credited ==
    /\ lcall.op = "credit" /\ lcall.error = NoError
    /\ lcall.locked > 0
    /\ balance = lcall.balance + lcall.amt
    /\ locked = lcall.locked

\* C21: no two purchase rows, of the airtime or the data table, share a
\* client_reference, so a lookup by client_reference finds at most one row.
C21_ReferenceGloballyUnique ==
    \A i, j \in TxnIds : txns[i].ref = txns[j].ref => i = j

\* C22: a webhook delivery with the gateway's signature whose reference no
\* PaymentIntent has is answered 200 at once, with a forensic log row written:
\* the wallet, the intent and everything else are as they were.
C22_UnknownReferenceIgnored ==
    [][\A w \in WhkIds, event \in WebhookEvents, reference \in WebhookRefs :
          (/\ WebhookStart(w, event, reference, Hmac("WEBHOOK_SECRET", <<event, reference>>))
           /\ (reference # "P1" \/ intent.status = "none"))
          => /\ whk' = [whk EXCEPT ![w] = NotFoundWhk]
             /\ UNCHANGED <<balance, intent, paystack, vfy, shopVars>>]_vars

\* a signed delivery for a reference no intent has was answered while the user's
\* intent was waiting for its payment
C22_UnknownReferenceAnswered ==
    /\ intent.status = "pending"
    /\ \E w \in WhkIds : whk[w] = NotFoundWhk

\* C23: for every non-negative amount x handed to a ledger method, q(x) is the
\* largest whole number of units not exceeding x, quantizing q(x) again gives
\* q(x), and the amount by which the method moves the wallet and that it writes
\* to the ledger is q(x).
C23_Truncation ==
    [][(ledgerOps' = ledgerOps + 1 /\ lcall'.amount >= 0)
       => LET x == lcall'.amount
              amt == lcall'.amt
              moved == IF lcall'.op = "credit" THEN balance' - balance
                       ELSE IF lcall'.op = "debit" THEN balance - balance'
                       ELSE IF lcall'.op = "lock_funds" THEN locked' - locked
                       ELSE locked - locked'
          IN  /\ amt * TWO_PLACES <= x
              /\ x < (amt + 1) * TWO_PLACES
              /\ q(amt * TWO_PLACES) = amt
              /\ lcall'.error = NoError
                    => /\ moved = amt
                       /\ ledger'[Len(ledger')].amount = amt]_vars

\* a credit of a unit and a half went through and moved one unit
C23_FractionDropped ==
    /\ lcall.op = "credit" /\ lcall.error = NoError
    /\ lcall.amount = TWO_PLACES + (TWO_PLACES \div 2)
    /\ balance = lcall.balance + 1

\* C24: no provider call is made under the wallet row lock.  A purchase POST
\* holds the lock only at its reservation and at its settlement, a manual requery
\* only at its wallet part, the sweeper only when it applies an answer: never
\* where the purchase call or a requery is made.  At the purchase call the
\* reservation has committed: the row is there and the lock is given back.
C24_NoCallUnderLock ==
    /\ \A r \in ReqIds :
          /\ rowlock = <<"post", r>> => req[r].pc \in {"reserve", "settle"}
          /\ req[r].pc = "call" => req[r].txn \in TxnIds
    /\ \A n \in QryIds : rowlock = <<"status", n>> => qry[n].pc = "wallet"
    /\ rowlock = <<"sweeper", 0>> => swp.pc = "apply"

\* a POST holds the lock for its settlement, after its purchase call returned,
\* while the sweeper is at its requery of the same row
C24_SettlementLockAfterCall ==
    \E r \in ReqIds :
        /\ rowlock = <<"post", r>>
        /\ req[r].pc = "settle"
        /\ txns[req[r].txn].calls = 1
        /\ swp.pc = "call"

\* C25: when the sweeper applies an answer to a row that is pending, and when
\* the manual requery runs its wallet part, balance, locked and the row's status
\* come out as the purchase view's settlement leaves them for the same outcome:
\* successful releases the reserved amount from locked, failed releases it and
\* returns it to balance, pending changes nothing.
C25_SameOutcomeApplication ==
    [][/\ (SweepApply /\ txns[Head(swp.batch)].status = "pending")
          => LET t == Head(swp.batch)
                 amt == txns[t].amount
                 outcome == _map_vtpass_outcome(ProviderBody(swp.kind))
             IN  /\ txns'[t].status = outcome
                 /\ locked' = IF outcome = "pending" THEN locked ELSE locked - amt
                 /\ balance' = IF outcome = "failed" THEN balance + amt ELSE balance
       /\ \A n \in QryIds :
             StatusWallet(n)
             => LET t == qry[n].txn
                    amt == txns[t].amount
                    outcome == _map_vtpass_outcome(ProviderBody(qry[n].kind))
                IN  /\ txns'[t].status = outcome
                    /\ locked' = locked - amt
                    /\ balance' = IF outcome = "failed" THEN balance + amt ELSE balance]_vars

\* C26: a purchase row gets at most one wallet settlement in its life: a step
\* that releases its reserved amount or refunds it (the view's settlement, the
\* manual requery or the sweeper) is taken only for a row that no release and no
\* refund was applied for before.
C26_SettledAtMostOnce ==
    [][\A t \in TxnIds :
          (txns'[t].refunds > txns[t].refunds \/ txns'[t].releases > txns[t].releases)
          => (txns[t].refunds = 0 /\ txns[t].releases = 0)]_vars

\* C27: every call made to the provider for a purchase row (the purchase call,
\* each re-send of it after a transport error, every requery by the manual
\* endpoint or the sweeper) carries the row's client_reference as request_id,
\* and nothing else.
C27_OneRequestId ==
    \A t \in TxnIds : txns[t].rids \subseteq {txns[t].ref}

\* a purchase call was sent again after a transport error and the row was
\* requeried after that, all with the row's client_reference
C27_ResentAndRequeried ==
    \E r \in ReqIds :
        /\ req[r].pc = "call" /\ req[r].attempt = 1
        /\ txns[req[r].txn].rids = {req[r].ref}
        /\ swp.pc = "apply" /\ Head(swp.batch) = req[r].txn

\* C28: the adapter sends a purchase request again only after an attempt that
\* did not reach the provider (the provider holds what it held before the
\* attempt), and makes at most MAX_RETRIES + 1 attempts.
C28_ResendOnlyPreflight ==
    [][\A r \in ReqIds :
          /\ req'[r].attempt <= MAX_RETRIES
          /\ req'[r].attempt = req[r].attempt + 1 => vtpass' = vtpass]_vars

\* C29: the batch of a sweeper run holds only rows that are initiated or pending
\* and old enough, each once, at most --max of them over both tables, and a row
\* that qualifies is left out only when the batch is full of older rows.  (Stated
\* for rows with distinct client_references.)
C29_BatchOldestFirst ==
    [][\A max_items \in 1..MaxBatch, aged \in 0..Len(txns) :
          (SweepStart(max_items, aged) /\ \A i, j \in TxnIds : txns[i].ref = txns[j].ref => i = j)
          => LET batch == swp'.batch
                 taken == {batch[k] : k \in 1..Len(batch)}
                 due == {i \in 1..aged : txns[i].status \in {"initiated", "pending"}}
             IN  /\ taken \subseteq due
                 /\ Cardinality(taken) = Len(batch)
                 /\ Len(batch) <= max_items
                 /\ \A i \in due \ taken :
                       Len(batch) = max_items /\ \A j \in taken : j < i]_vars

\* C30: when the requery or the write for one transaction of a sweeper batch
\* raises, the rows and the wallet stay as they were before the transaction was
\* attempted, the error is reported, and the run goes on with the rest of the
\* batch.
C30_ErrorIsolated ==
    [][(SweepCallRaises \/ SweepApplyRaises)
       => /\ UNCHANGED <<balance, locked, txns>>
          /\ swp'.batch = Tail(swp.batch)
          /\ swp'.pc = IF Len(swp.batch) > 1 THEN "call" ELSE "idle"
          /\ Len(swp.batch) > 1 => swp'.errors = swp.errors + 1]_vars

\* the first transaction of a batch of two raised in its write and was left
\* pending; the second has been requeried and is about to be applied
C30_SecondProcessedAfterError ==
    /\ swp.errors = 1
    /\ swp.pc = "apply"
    /\ swp.batch = <<2>>
    /\ txns[1].status = "pending" /\ txns[1].refunds = 0
    /\ vtpass[txns[1].ref] = "declined"

\* C31: a purchase left pending when its POST has returned, whose order the
\* provider has finished with (or never received), is brought by the sweeper to
\* successful or failed, and its reservation leaves locked: finalised or refunded.
C31_EventuallyReconciled ==
    (/\ Len(txns) = 1
     /\ txns[1].status = "pending"
     /\ req[1].pc = "done"
     /\ swp.runs = 0
     /\ vtpass[txns[1].ref] # "processing")
    ~> (/\ Len(txns) = 1
        /\ txns[1].status \in {"successful", "failed"}
        /\ txns[1].releases = 1)

\* C32: two purchase POSTs with different client_references for the same line are
\* never both past the cache locks and not yet returned.
C32_OneRequestPerLine ==
    \A r1, r2 \in ReqIds :
        (/\ r1 # r2
         /\ req[r1].pc \in {"check", "reserve", "call", "settle", "error", "finally"}
         /\ req[r2].pc \in {"check", "reserve", "call", "settle", "error", "finally"}
         /\ req[r1].line = req[r2].line)
        => req[r1].ref = req[r2].ref

\* C32, for two POSTs to the same endpoint
C32_OneRequestPerLineOfService ==
    \A r1, r2 \in ReqIds :
        (/\ r1 # r2
         /\ req[r1].pc \in {"check", "reserve", "call", "settle", "error", "finally"}
         /\ req[r2].pc \in {"check", "reserve", "call", "settle", "error", "finally"}
         /\ req[r1].line = req[r2].line
         /\ req[r1].svc = req[r2].svc)
        => req[r1].ref = req[r2].ref


\* C33: every step that changes the wallet's balance or locked appends exactly one
\* ledger Transaction entry, with a positive amount; a step that changes neither
\* appends none.
C33_OneEntryPerMutation ==
    [][/\ (balance' # balance \/ locked' # locked)
          => /\ Len(ledger') = Len(ledger) + 1
             /\ SubSeq(ledger', 1, Len(ledger)) = ledger
             /\ ledger'[Len(ledger')].amount > 0
       /\ (balance' = balance /\ locked' = locked) => ledger' = ledger]_vars


\* the step is a provider call made on behalf of row t: the purchase call of a POST
\* has returned or raised, or a requery of the status view or of the sweeper has
\* answered
ProviderCalled(t) ==
    \/ \E r \in ReqIds : /\ req[r].pc = "call" /\ req[r].txn = t
                          /\ req'[r].pc \in {"settle", "error"}
    \/ \E n \in QryIds : /\ qry[n].pc = "call" /\ qry[n].txn = t
                          /\ qry'[n].pc = "apply"
    \/ swp.pc = "call" /\ Head(swp.batch) = t /\ swp'.pc = "apply"

\* C34: every provider call (purchase, manual requery, sweeper requery) leaves one
\* more ProviderLog row, and no step removes a ProviderLog row.
C34_EveryCallLogged ==
    [][\A t \in 1..Len(txns) :
          /\ txns'[t].logs >= txns[t].logs
          /\ ProviderCalled(t) => txns'[t].logs > txns[t].logs]_vars


\* C35: the webhook event list of the PaymentIntent is append-only: no step removes
\* or overwrites an entry already in it, and a signature-verified delivery for the
\* known reference leaves the list one entry longer.
C35_EventsAppendOnly ==
    [][/\ Len(intent'.events) >= Len(intent.events)
       /\ SubSeq(intent'.events, 1, Len(intent.events)) = intent.events
       /\ \A w \in WhkIds :
              (whk[w].pc = "append" /\ whk'[w].pc = "process")
              => Len(intent'.events) = Len(intent.events) + 1]_vars


\* no purchase POST, status GET or sweeper run is between its first and last step
NothingMidFlight ==
    /\ \A r \in ReqIds : req[r].pc \in {"idle", "done"}
    /\ \A n \in QryIds : qry[n].pc \in {"idle", "done"}
    /\ swp.pc = "idle"

\* the amounts of the rows 1..t whose status is in the set statuses
RECURSIVE SumAmounts(_, _)
SumAmounts(t, statuses) ==
    IF t = 0 THEN 0
    ELSE (IF txns[t].status \in statuses THEN txns[t].amount ELSE 0)
             + SumAmounts(t - 1, statuses)

\* C36: money conservation: whenever nothing is mid-flight, balance is what was
\* credited less the amounts of the successful and of the pending purchases.
C36_MoneyConservation ==
    NothingMidFlight
        => balance = InitBalance - SumAmounts(Len(txns), {"successful", "pending"})

\* C37: reservation accounting: whenever nothing is mid-flight, locked is the sum of
\* the amounts of the pending purchases (no explicit lock calls are made), so it is
\* 0 once every purchase is terminal.
C37_ReservationAccounting ==
    NothingMidFlight => locked = SumAmounts(Len(txns), {"pending"})


\* C38: once the PaymentIntent's status is success no step changes it, whatever
\* verify results and webhook events arrive afterwards or concurrently.
C38_SuccessIsFinal ==
    [][intent.status = "success" => intent'.status = "success"]_vars


\* C39: a purchase POST that returns leaves none of the cache keys it added: once
\* every POST has returned, no single-flight or cooldown key is set.
C39_NoKeyLeftBehind ==
    (\A r \in ReqIds : req[r].pc \in {"idle", "done"}) => cache = {}


\* C40: for every accepted airtime amount the amount transmitted to the provider (in
\* naira) equals the amount reserved from the wallet (in kobo).
C40_SentEqualsReserved ==
    sale.pc = "sent" => sale.sent * KoboPerNaira = sale.amt

=============================================================================
